---- MODULE Spec2Model ----
(***************************************************************************)
(* AAHAR / ScanBite: the two AI flows (analyzeFoodItem, analyzeBarcode)    *)
(* and the camera state machine of ScanPageClient, as state machines.      *)
(*                                                                         *)
(* Encoding of JavaScript values:                                          *)
(*   - an object is a function whose DOMAIN is the set of its keys; a key  *)
(*     whose value is undefined is the same as an absent key (the results  *)
(*     cross a JSON boundary);                                             *)
(*   - an optional value is a set with at most one element ({} is          *)
(*     undefined);                                                         *)
(*   - a string is a sequence of pieces, so that template literals are     *)
(*     concatenations and the empty string is <<>>;                        *)
(*   - a fraction such as 0.55 is the integer number of hundredths (55).   *)
(***************************************************************************)
EXTENDS Integers, Sequences, FiniteSets, TLC

VARIABLES
    foodPc,         \* analyzeFoodItem: "idle", "prompting", "done"
    foodOutcome,    \* what the prompt call produced for the current run
    foodResult,     \* what analyzeFoodItemFlow completed with
    bcRev,          \* analyzeBarcode: the revision of the flow file that serves the
                    \* calls, "none" before the first call
    bcPc,           \* "idle", "fetching", "prompting", "done"
    bcBarcode,      \* flowInput.barcodeNumber
    bcProductInfo,  \* what fetchProductInfoByBarcode returned to the flow
    bcOutcome,      \* what the prompt call produced for the current run
    bcPromptCalls,  \* how often the current run has invoked the prompt
    bcResult,       \* what analyzeBarcodeFlow completed with
    pageMounted,    \* ScanPageClient: the component has rendered and run its effects
    imagePreview,   \* useState: an image preview is present (non-null)
    imageDataUri,   \* useState: a data URI is present (non-null)
    analysisResult, \* useState: the optional AnalyzeFoodItemOutput
    isLoading,      \* useState
    error,          \* useState: an error message is present (non-null)
    hasCameraPermission, \* useState<boolean | null>: "null", "true", "false"
    activeTab,      \* useState: "image-scan" or "barcode-scan"
    streamRef,      \* useRef: 0 for null, else the number of the MediaStream
    srcObject,      \* srcObject of the rendered <video>: 0 for null or no element
    videoPlaying,   \* the rendered <video> plays its srcObject (play() resolved)
    stopped,        \* the MediaStreams whose tracks have been stopped
    tasks,          \* the getCameraStream() calls so far; call i obtains stream i;
                    \* phase "getUserMedia", "play", "done" or "rejected", and the
                    \* call's isEffectMounted flag
    cleanupOf,      \* the call whose effect cleanup is registered, 0 for none
    pendingReads,   \* FileReaders that have not fired onloadend yet
    analyzePending, \* handleAnalyze awaits analyzeFoodItem
    speakCalls,     \* speechSynthesis.speak calls of the latest handleAnalyze
    toast,          \* title of the latest toast
    mediaDevices,   \* navigator.mediaDevices.getUserMedia exists
    speechSynthesis, \* window.speechSynthesis exists
    parseRev,       \* fetchProductInfoByBarcode on one product: the revision applied
    parseProduct,   \* data.product of the response it was given
    parseReturn     \* the record the handler returned for it

foodVars == <<foodPc, foodOutcome, foodResult>>

barcodeVars == <<bcRev, bcPc, bcBarcode, bcProductInfo, bcOutcome, bcPromptCalls, bcResult>>

scanVars == <<pageMounted, imagePreview, imageDataUri, analysisResult, isLoading, error,
              hasCameraPermission, activeTab, streamRef, srcObject, videoPlaying, stopped,
              tasks, cleanupOf, pendingReads, analyzePending, speakCalls, toast,
              mediaDevices, speechSynthesis>>

parseVars == <<parseRev, parseProduct, parseReturn>>

vars == <<foodVars, barcodeVars, scanVars, parseVars>>

(***************************************************************************)
(* JavaScript helpers                                                      *)
(***************************************************************************)
\* The empty object.
EmptyObj == [k \in {} |-> {}]

\* A property list holding k when the optional value opt is defined.
Prop(k, opt) == [x \in {y \in {k} : opt # {}} |-> CHOOSE v \in opt : TRUE]

\* o.k as an optional value.
Read(o, k) == IF k \in DOMAIN o THEN {o[k]} ELSE {}

\* a || b on optional strings: a when it is defined and non-empty.
OrStr(a, b) == IF a # {} /\ a # {<<>>} THEN a ELSE b

\* a || b on optional arrays and objects: a when it is defined.
OrDef(a, b) == IF a # {} THEN a ELSE b

\* The value of an optional that is defined.
The(opt) == CHOOSE v \in opt : TRUE

\* The optional values over a set.
Opt(S) == {{}} \cup {{v} : v \in S}

\* A flow or tool call completes by returning a value or by throwing.
Returned(v) == [threw |-> FALSE, value |-> v]
Thrown == [threw |-> TRUE]

(***************************************************************************)
(* analyzeFoodItem (current revision)                                      *)
(***************************************************************************)
ConfidenceThreshold == 70

ItemTypes == {<<"fruit">>, <<"vegetable">>, <<"Organic", "apple">>}

\* Mutant: the handler tests assumedOrganic !== false instead of === true.
simulateResults_UndefinedIsOrganic(input) ==
    LET isSimulatedOrganic == Read(input, "assumedOrganic") # {FALSE}
        simulatedResidues ==
            IF isSimulatedOrganic
            THEN << [name |-> <<"Natural Waxes">>, estimatedPercentage |-> 1],
                    [name |-> <<"Kaolin Clay">>, estimatedPercentage |-> 5] >>
            ELSE << [name |-> <<"Simulated Pesticide Alpha">>, estimatedPercentage |-> 30],
                    [name |-> <<"Simulated Fungicide Beta">>, estimatedPercentage |-> 15],
                    [name |-> <<"Simulated Wax Coating">>, estimatedPercentage |-> 80] >>
    IN [ identification |->
            [ isFoodItem |-> TRUE,
              itemType |-> input.itemType,
              name |-> <<"Simulated">>
                       \o (IF isSimulatedOrganic THEN <<"Organic">> ELSE <<"Conventional">>)
                       \o input.itemType,
              confidence |-> 55,
              dominantColors |-> << <<"simulated color 1">>, <<"simulated color 2">> >>,
              isOrganic |-> isSimulatedOrganic,
              organicReasoning |->
                  IF isSimulatedOrganic
                  THEN <<"Simulated as organic based on tool input">>
                  ELSE <<"Simulated as conventionally grown based on tool input">> ],
         components |->
            [ waterPercentage |-> 80,
              sugarPercentage |-> IF isSimulatedOrganic THEN 7 ELSE 5,
              fiberPercentage |-> 3,
              vitaminsAndMinerals |-> <<"Vitamin C, Potassium (Simulated values based on">>
                                      \o input.itemType \o <<")">> ],
         chemicalResidues |-> simulatedResidues,
         edibility |-> "Wash & Eat" ]

\* simulateResultsTool's handler.
simulateResults(input) ==
    LET isSimulatedOrganic == Read(input, "assumedOrganic") = {TRUE}
        simulatedResidues ==
            IF isSimulatedOrganic
            THEN << [name |-> <<"Natural Waxes">>, estimatedPercentage |-> 1],
                    [name |-> <<"Kaolin Clay">>, estimatedPercentage |-> 5] >>
            ELSE << [name |-> <<"Simulated Pesticide Alpha">>, estimatedPercentage |-> 30],
                    [name |-> <<"Simulated Fungicide Beta">>, estimatedPercentage |-> 15],
                    [name |-> <<"Simulated Wax Coating">>, estimatedPercentage |-> 80] >>
    IN [ identification |->
            [ isFoodItem |-> TRUE,
              itemType |-> input.itemType,
              name |-> <<"Simulated">>
                       \o (IF isSimulatedOrganic THEN <<"Organic">> ELSE <<"Conventional">>)
                       \o input.itemType,
              confidence |-> 55,
              dominantColors |-> << <<"simulated color 1">>, <<"simulated color 2">> >>,
              isOrganic |-> isSimulatedOrganic,
              organicReasoning |->
                  IF isSimulatedOrganic
                  THEN <<"Simulated as organic based on tool input">>
                  ELSE <<"Simulated as conventionally grown based on tool input">> ],
         components |->
            [ waterPercentage |-> 80,
              sugarPercentage |-> IF isSimulatedOrganic THEN 7 ELSE 5,
              fiberPercentage |-> 3,
              vitaminsAndMinerals |-> <<"Vitamin C, Potassium (Simulated values based on">>
                                      \o input.itemType \o <<")">> ],
         chemicalResidues |-> simulatedResidues,
         edibility |-> "Wash & Eat" ]

\* The inputs the model can give the simulateResults tool.
SimulateInputs ==
    { [itemType |-> t] @@ Prop("assumedOrganic", a) : t \in ItemTypes, a \in Opt(BOOLEAN) }

\* The identification objects a model output can hold (AnalyzeFoodItemOutputSchema).
ModelIdentifications ==
    { [isFoodItem |-> f] @@ Prop("itemType", t) @@ Prop("name", n) @@ Prop("confidence", c)
        @@ Prop("dominantColors", d) @@ Prop("isOrganic", o) @@ Prop("organicReasoning", r) :
        f \in BOOLEAN,
        t \in Opt({<<"fruit">>}),
        n \in Opt({<<>>, <<"Apple">>}),
        c \in Opt({55, 70, 90}),
        d \in Opt({<< <<"red">> >>}),
        o \in Opt(BOOLEAN),
        r \in Opt({<<>>, <<"Appears conventionally grown">>}) }

\* The structured outputs the model can produce on its own.
ModelOutputs ==
    { [identification |-> i] @@ Prop("components", c) @@ Prop("chemicalResidues", x)
        @@ Prop("edibility", e) :
        i \in ModelIdentifications,
        c \in Opt({[waterPercentage |-> 85, sugarPercentage |-> 10]}),
        x \in Opt({<< [name |-> <<"Chlorpyrifos">>, estimatedPercentage |-> 5] >>}),
        e \in Opt({"Safe to Eat", "Wash & Eat", "Unsafe"}) }

\* Mutant: the catch block rethrows instead of returning the error state.
FoodCatchReturn_Rethrow == Thrown

\* catch (error): the clear non-food error state.
FoodCatchReturn ==
    Returned([identification |->
        [isFoodItem |-> FALSE, name |-> <<"Analysis failed due to a system error.">>]])

\* if (!output): the default non-food response.
FoodNoOutputReturn ==
    Returned([identification |->
        [isFoodItem |-> FALSE,
         name |-> <<"Analysis incomplete. The AI could not process the image.">>]])

\* Mutant: the non-food return spreads the model output like the food return.
FoodNonFoodReturn_Spread(output) ==
    Returned([identification |-> [isFoodItem |-> FALSE] @@ output.identification] @@ output)

\* if (output.identification.isFoodItem === false): only isFoodItem and name.
FoodNonFoodReturn(output) ==
    Returned([identification |->
        [isFoodItem |-> FALSE]
        @@ Prop("name", OrStr(Read(output.identification, "name"),
                              {<<"Non-food item detected or analysis error">>}))])

\* Mutant: the food return sets isFoodItem but keeps the model's name and isOrganic.
FoodPassThrough_NoDefaults(output) ==
    Returned([identification |-> [isFoodItem |-> TRUE] @@ output.identification] @@ output)

\* Mutant: the food return defaults name and isOrganic but not organicReasoning.
FoodPassThrough_NoDefaultReasoning(output) ==
    LET id == output.identification
    IN Returned(
        [identification |->
            [isFoodItem |-> TRUE,
             isOrganic |-> IF Read(id, "isOrganic") # {} THEN id.isOrganic ELSE FALSE]
            @@ Prop("name", OrStr(Read(id, "name"), {<<"Unnamed Food Item">>}))
            @@ id]
        @@ output)

\* Mutant: the food return forgets the ...output spread.
FoodPassThrough_IdentificationOnly(output) ==
    Returned([identification |-> [isFoodItem |-> TRUE] @@ output.identification])

\* The food return: {...output, identification: {...output.identification, ...}}.
FoodPassThrough(output) ==
    LET id == output.identification
    IN Returned(
        [identification |->
            [isFoodItem |-> TRUE,
             isOrganic |-> IF Read(id, "isOrganic") # {} THEN id.isOrganic ELSE FALSE]
            @@ Prop("name", OrStr(Read(id, "name"), {<<"Unnamed Food Item">>}))
            @@ Prop("organicReasoning",
                    OrStr(Read(id, "organicReasoning"),
                          IF Read(id, "isOrganic") = {}
                          THEN {<<"Organic status could not be determined from visual inspection.">>}
                          ELSE {}))
            @@ [k \in DOMAIN id \ {"organicReasoning"} |-> id[k]]]
        @@ output)

\* analyzeFoodItemFlow's handler, given what the awaited prompt call produced.
analyzeFoodItemFlow(outcome) ==
    IF outcome.kind = "throw" THEN FoodCatchReturn
    ELSE IF outcome.kind = "null" THEN FoodNoOutputReturn
    ELSE IF outcome.output.identification.isFoodItem = FALSE
         THEN FoodNonFoodReturn(outcome.output)
         ELSE FoodPassThrough(outcome.output)

(***************************************************************************)
(* Strings of the Open Food Facts response, character by character         *)
(***************************************************************************)
LowerCaseLetters ==
    {"a", "b", "c", "d", "e", "f", "g", "h", "i", "j", "k", "l", "m",
     "n", "o", "p", "q", "r", "s", "t", "u", "v", "w", "x", "y", "z"}

\* s.replace(/c/g, '') for one character c.
RemoveChar(s, c) == SelectSeq(s, LAMBDA x : x # c)

\* s.replace(/-/g, ' ').
HyphensToSpaces(s) == [i \in 1..Len(s) |-> IF s[i] = "-" THEN " " ELSE s[i]]

\* s.trim().
Trim(s) ==
    LET solid == {i \in 1..Len(s) : s[i] # " "}
    IN IF solid = {} THEN <<>>
       ELSE SubSeq(s, CHOOSE i \in solid : \A j \in solid : i <= j,
                      CHOOSE i \in solid : \A j \in solid : i >= j)

\* list.map(f).filter(x => x): the non-empty images, in order.
RECURSIVE MapTrimFilter(_)
MapTrimFilter(list) ==
    IF list = <<>> THEN <<>>
    ELSE (IF Trim(Head(list)) = <<>> THEN <<>> ELSE <<Trim(Head(list))>>)
         \o MapTrimFilter(Tail(list))

\* s.split(/[,;]\s*/): a separator is a comma or semicolon with the spaces after it.
RECURSIVE SplitSeparators(_)
SplitSeparators(s) ==
    LET seps == {i \in 1..Len(s) : s[i] \in {",", ";"}}
    IN IF seps = {} THEN <<s>>
       ELSE LET i == CHOOSE x \in seps : \A y \in seps : x <= y
                after == {j \in (i + 1)..Len(s) : s[j] # " "}
                j == IF after = {} THEN Len(s) + 1
                     ELSE CHOOSE x \in after : \A y \in after : x <= y
            IN <<SubSeq(s, 1, i - 1)>> \o SplitSeparators(SubSeq(s, j, Len(s)))

\* The lookahead (?![^(]*\)): what follows position i reaches a closer before any opener.
ClosesBefore(s, i, opener, closer) ==
    \E j \in (i + 1)..Len(s) :
        /\ s[j] = closer
        /\ \A k \in (i + 1)..(j - 1) : s[k] # opener

\* s.split(/[,;](?![^(]*\))(?![^[]*\])/g): separators outside parentheses and brackets.
RECURSIVE SplitOutsideBrackets(_)
SplitOutsideBrackets(s) ==
    LET seps == {i \in 1..Len(s) :
                    /\ s[i] \in {",", ";"}
                    /\ ~ClosesBefore(s, i, "(", ")")
                    /\ ~ClosesBefore(s, i, "[", "]")}
    IN IF seps = {} THEN <<s>>
       ELSE LET i == CHOOSE x \in seps : \A y \in seps : x <= y
            IN <<SubSeq(s, 1, i - 1)>> \o SplitOutsideBrackets(SubSeq(s, i + 1, Len(s)))

\* Current revision: replace(/_/g,'').split(/[,;]\s*/).map(trim).filter(ing => ing).
IngredientsArrayCurrent(ingredientsString) ==
    MapTrimFilter(SplitSeparators(RemoveChar(ingredientsString, "_")))

\* Earlier revisions: split outside brackets, then strip underscores and trim each piece.
IngredientsArrayLegacy(ingredientsString) ==
    LET pieces == SplitOutsideBrackets(ingredientsString)
    IN MapTrimFilter([i \in 1..Len(pieces) |-> RemoveChar(pieces[i], "_")])

\* ingredientsArray.length > 0 ? ingredientsArray : (ingredientsString ? [ingredientsString] : []).
IngredientsOrWhole(ingredientsArray, ingredientsString) ==
    IF Len(ingredientsArray) > 0 THEN ingredientsArray
    ELSE IF ingredientsString # <<>> THEN <<ingredientsString>> ELSE <<>>

\* Mutant: the hyphens are kept.
StripAllergenTag_KeepHyphens(tag) ==
    Trim(IF Len(tag) >= 3 /\ tag[1] \in LowerCaseLetters /\ tag[2] \in LowerCaseLetters
            /\ tag[3] = ":"
         THEN SubSeq(tag, 4, Len(tag)) ELSE tag)

\* tag.replace(/^[a-z]{2}:/, '').replace(/-/g, ' ').trim().
StripAllergenTag(tag) ==
    LET prefixed == /\ Len(tag) >= 3
                    /\ tag[1] \in LowerCaseLetters
                    /\ tag[2] \in LowerCaseLetters
                    /\ tag[3] = ":"
        rest == IF prefixed THEN SubSeq(tag, 4, Len(tag)) ELSE tag
    IN Trim(HyphensToSpaces(rest))

\* tags.map(strip).filter(allergen => allergen).
RECURSIVE AllergensArray(_)
AllergensArray(tags) ==
    IF tags = <<>> THEN <<>>
    ELSE (IF StripAllergenTag(Head(tags)) = <<>> THEN <<>> ELSE <<StripAllergenTag(Head(tags))>>)
         \o AllergensArray(Tail(tags))

(***************************************************************************)
(* The Open Food Facts response                                            *)
(***************************************************************************)
\* JSON values carry their type: the handler calls string and array methods on them.
JString(s) == [type |-> "string", val |-> s]
JNumber == [type |-> "number", val |-> <<"7">>]
JArray(a) == [type |-> "array", val |-> a]

\* JavaScript truthiness of an optional JSON value.
Truthy(opt) == opt # {} /\ ~(The(opt).type = "string" /\ The(opt).val = <<>>)

\* a || b on optional JSON values.
OrJson(a, b) == IF Truthy(a) THEN a ELSE b

TextPlain == <<"a", ",", " ", "b", "_", "c", ";", "d">>
TextUnderscore == <<"_">>
TextParens == <<"x", "(", "y", ",", "z", ")">>
TagMilk == <<"e", "n", ":", "m", "i", "l", "k">>
TagTreeNuts == <<"e", "n", ":", "t", "r", "e", "e", "-", "n", "u", "t", "s">>
TagPrefixOnly == <<"f", "r", ":">>
TagBare == <<"s", "o", "y">>

\* A product that carries every field the request asks for.
FullProduct ==
    [ product_name_en |-> JString(<<"Choco Spread EN">>),
      product_name |-> JString(<<"Pate a tartiner">>),
      brands |-> JString(<<"Acme">>),
      ingredients_text_en |-> JString(TextParens),
      ingredients_text |-> JString(TextPlain),
      allergens_tags |-> JArray(<<JString(TagMilk), JString(TagTreeNuts)>>),
      image_url |-> JString(<<"https://images.openfoodfacts.org/front.jpg">>) ]

\* The same product with one field replaced.
WithField(product, k, v) == [x \in DOMAIN product |-> IF x = k THEN v ELSE product[x]]

\* data.product: the full product with any of its fields missing, and the full
\* product with one field empty, odd or of the wrong type. Names, brands and image
\* URLs are strings when present; the ingredients text and the allergen tags may
\* also be of the wrong type.
Products ==
    { [k \in keys |-> FullProduct[k]] : keys \in SUBSET DOMAIN FullProduct }
    \cup { WithField(FullProduct, "product_name_en", JString(<<>>)),
           WithField(FullProduct, "brands", JString(<<>>)),
           WithField(FullProduct, "image_url", JString(<<>>)),
           WithField(FullProduct, "ingredients_text_en", JNumber),
           WithField(WithField(FullProduct, "ingredients_text_en", JString(<<>>)),
                     "ingredients_text", JString(TextUnderscore)),
           WithField(WithField(FullProduct, "ingredients_text_en", JString(<<>>)),
                     "ingredients_text", JNumber),
           WithField(FullProduct, "allergens_tags",
                     JArray(<<JString(TagPrefixOnly), JString(TagBare)>>)),
           WithField(FullProduct, "allergens_tags", JArray(<<JString(TagMilk), JNumber>>)),
           WithField(FullProduct, "allergens_tags", JString(TagMilk)) }

\* What await fetch(...) and await response.json() can produce.
Responses ==
    {[kind |-> "fetchThrows"], [kind |-> "jsonThrows"], [kind |-> "jsonNull"]}
    \cup {[kind |-> "notOk", status |-> st] : st \in {"404", "500"}}
    \cup {[kind |-> "json", data |-> Prop("status", st) @@ Prop("product", p)] :
            st \in Opt({0, 1}), p \in Opt(Products)}

(***************************************************************************)
(* fetchProductInfoByBarcode, Open Food Facts revisions                    *)
(***************************************************************************)
\* if (!response.ok): not found, with the HTTP status in the message.
OffNotOkReturn(rev, status) ==
    [ isFound |-> FALSE,
      productName |-> <<"Product not found or API error">>,
      brand |-> <<>>,
      ingredients |-> <<>>,
      allergens |-> <<>>,
      potentialConcerns |-> <<>>,
      overallAssessment |->
          IF rev = "current"
          THEN <<"Could not retrieve information from Open Food Facts. The API returned status ",
                 status,
                 ". This could be due to an invalid barcode or a temporary issue with the service.">>
          ELSE <<"Could not retrieve information from Open Food Facts. API returned status ",
                 status, ".">>,
      source |-> <<"Open Food Facts API">> ]

\* if (data.status === 0 || !data.product): not in the database.
OffNotFoundReturn(rev) ==
    [ isFound |-> FALSE,
      productName |-> <<"Product not found">>,
      brand |-> <<>>,
      ingredients |-> <<>>,
      allergens |-> <<>>,
      potentialConcerns |-> <<>>,
      overallAssessment |->
          IF rev = "current"
          THEN <<"Product information not found in the Open Food Facts database for this barcode. Please check if the number is correct.">>
          ELSE <<"Product information not found in the Open Food Facts database for this barcode.">>,
      source |-> <<"Open Food Facts API">> ]

\* catch (error): the request or the processing of its response threw.
OffErrorReturn(rev) ==
    [ isFound |-> FALSE,
      productName |-> <<"Error during API request">>,
      brand |-> <<>>,
      ingredients |-> <<>>,
      allergens |-> <<>>,
      potentialConcerns |-> <<>>,
      overallAssessment |->
          IF rev = "current"
          THEN <<"An error occurred while trying to fetch product information from Open Food Facts. Please check your internet connection.">>
          ELSE <<"An error occurred while trying to fetch product information from Open Food Facts.">>,
      source |-> <<"Open Food Facts API (Error)">> ]

\* Whether building the found record throws a TypeError: a string method on a
\* non-string ingredients text, .map on a non-array, .replace on a non-string tag.
OffProductThrows(product) ==
    LET ingredientsString ==
            OrJson(OrJson(Read(product, "ingredients_text_en"), Read(product, "ingredients_text")),
                   {JString(<<>>)})
        tags == OrJson(Read(product, "allergens_tags"), {JArray(<<>>)})
    IN \/ The(ingredientsString).type # "string"
       \/ The(tags).type # "array"
       \/ \E k \in 1..Len(The(tags).val) : The(tags).val[k].type # "string"

\* The found record of the handler (the earlier revisions also preset the AI's fields).
OffFoundReturn(rev, product) ==
    LET productName ==
            The(OrJson(OrJson(Read(product, "product_name_en"), Read(product, "product_name")),
                       {JString(<<"N/A">>)})).val
        ingredientsString ==
            The(OrJson(OrJson(Read(product, "ingredients_text_en"), Read(product, "ingredients_text")),
                       {JString(<<>>)})).val
        ingredientsArray ==
            IF rev = "current" THEN IngredientsArrayCurrent(ingredientsString)
            ELSE IngredientsArrayLegacy(ingredientsString)
        tags == The(OrJson(Read(product, "allergens_tags"), {JArray(<<>>)})).val
        allergensArray == AllergensArray([k \in 1..Len(tags) |-> tags[k].val])
    IN [ isFound |-> TRUE,
         productName |-> productName,
         brand |-> The(OrJson(Read(product, "brands"), {JString(<<"N/A">>)})).val,
         ingredients |-> IngredientsOrWhole(ingredientsArray, ingredientsString),
         allergens |-> allergensArray,
         source |-> <<"Open Food Facts API">> ]
       @@ (IF Truthy(Read(product, "image_url"))
           THEN [imageUrl |-> product.image_url.val] ELSE EmptyObj)
       @@ (IF rev = "current" THEN EmptyObj
           ELSE [potentialConcerns |-> <<>>, overallAssessment |-> <<>>])

\* Mutant: the handler has no catch block, so a failure rejects the tool call.
OffCatch_Rethrow(rev) == Thrown

\* try { ... } catch (error) { return <error record> }.
OffCatch(rev) == Returned(OffErrorReturn(rev))

\* The handler of fetchProductInfoByBarcodeTool: everything happens inside try/catch.
fetchProductInfoOff(rev, response) ==
    IF response.kind \in {"fetchThrows", "jsonThrows", "jsonNull"} THEN OffCatch(rev)
    ELSE IF response.kind = "notOk" THEN Returned(OffNotOkReturn(rev, response.status))
    ELSE IF Read(response.data, "status") = {0} \/ Read(response.data, "product") = {}
         THEN Returned(OffNotFoundReturn(rev))
    ELSE IF OffProductThrows(response.data.product) THEN OffCatch(rev)
    ELSE Returned(OffFoundReturn(rev, response.data.product))

(***************************************************************************)
(* fetchProductInfoByBarcode, mock-database revisions                      *)
(***************************************************************************)
mockProductDatabase ==
    [ b \in {"123456789012", "987654321098", "112233445566", "000000000000"} |->
        CASE b = "123456789012" ->
                [ isFound |-> TRUE,
                  productName |-> <<"Super Sweet Cereal">>,
                  brand |-> <<"KidsCo">>,
                  ingredients |-> << <<"Whole Grain Oats">>, <<"Sugar">>, <<"Corn Syrup">>,
                                     <<"Artificial Colors (Red 40, Yellow 5)">>,
                                     <<"Artificial Flavors">>, <<"Salt">>, <<"Vitamin B12">> >>,
                  allergens |-> << <<"May contain wheat">> >> ]
          [] b = "987654321098" ->
                [ isFound |-> TRUE,
                  productName |-> <<"Organic Veggie Crisps">>,
                  brand |-> <<"Healthy Snacks Inc.">>,
                  ingredients |-> << <<"Organic Potatoes">>, <<"Organic Sunflower Oil">>,
                                     <<"Sea Salt">>, <<"Organic Rosemary Extract">> >>,
                  allergens |-> <<>> ]
          [] b = "112233445566" ->
                [ isFound |-> TRUE,
                  productName |-> <<"Diet Soda Blast">>,
                  brand |-> <<"ZeroCal">>,
                  ingredients |-> << <<"Carbonated Water">>, <<"Caramel Color">>, <<"Aspartame">>,
                                     <<"Phosphoric Acid">>, <<"Potassium Benzoate (Preservative)">>,
                                     <<"Natural Flavors">>, <<"Caffeine">> >>,
                  allergens |-> <<>> ]
          [] b = "000000000000" ->
                [ isFound |-> FALSE,
                  productName |-> <<"Unknown Product">> ] ]

\* The barcodes the mock-database flows are called with: the database keys, a
\* number that is not a key, and a name that every JavaScript object inherits.
Barcodes == DOMAIN mockProductDatabase \cup {"999999999999", "constructor"}

\* The barcodes the Open Food Facts flows are called with (the response decides).
OffBarcodes == {"3017620422003", "999999999999"}

\* mockProductDatabase[barcodeNumber]: an own entry, an inherited member of the
\* object literal (a function, with none of the product fields), or undefined.
MockLookup(barcodeNumber) ==
    IF barcodeNumber \in DOMAIN mockProductDatabase THEN {mockProductDatabase[barcodeNumber]}
    ELSE IF barcodeNumber = "constructor" THEN {EmptyObj}
    ELSE {}

\* The found record built from a database entry.
MockFoundReturn(productInfo) ==
    [ isFound |-> TRUE,
      productName |-> The(OrStr(Read(productInfo, "productName"), {<<"N/A">>})),
      brand |-> The(OrStr(Read(productInfo, "brand"), {<<"N/A">>})),
      ingredients |-> The(OrDef(Read(productInfo, "ingredients"), {<<>>})),
      allergens |-> The(OrDef(Read(productInfo, "allergens"), {<<>>})),
      potentialConcerns |-> <<>>,
      overallAssessment |-> <<>> ]

MockNotFoundReturn ==
    [ isFound |-> FALSE,
      productName |-> <<"Product not found">>,
      brand |-> <<>>,
      ingredients |-> <<>>,
      allergens |-> <<>>,
      potentialConcerns |-> <<>>,
      overallAssessment |-> <<"Could not retrieve information for this barcode.">> ]

\* part_001: if (productInfo).
fetchProductInfoPart001(barcodeNumber) ==
    IF MockLookup(barcodeNumber) # {}
    THEN Returned(MockFoundReturn(The(MockLookup(barcodeNumber))))
    ELSE Returned(MockNotFoundReturn)

\* part_002, first file: if (productInfoFromDb && productInfoFromDb.isFound).
fetchProductInfoPart002a(barcodeNumber) ==
    IF MockLookup(barcodeNumber) # {} /\ Read(The(MockLookup(barcodeNumber)), "isFound") = {TRUE}
    THEN Returned(MockFoundReturn(The(MockLookup(barcodeNumber))))
    ELSE Returned(MockNotFoundReturn)

(***************************************************************************)
(* analyzeBarcodeFlow, every revision                                      *)
(***************************************************************************)
\* part_001, part_002 (first and second file), part_003, analyze-barcode-flow.ts.
Revisions == {"part001", "part002a", "part002b", "part003", "current"}

MockRevisions == {"part001", "part002a"}

\* The structured outputs the model can produce. The prompts of the earlier
\* revisions use the whole AnalyzeBarcodeOutputSchema as output schema, so an
\* output can carry its own isFound and product fields.
ModelBarcodeOutputs ==
    { Prop("isFound", f)
        @@ (IF invents THEN [ productName |-> <<"Invented name">>,
                              brand |-> <<"Invented brand">>,
                              ingredients |-> << <<"invented ingredient">> >>,
                              allergens |-> << <<"invented allergen">> >>,
                              imageUrl |-> <<"https://example.com/invented.jpg">>,
                              source |-> <<"Invented source">> ]
            ELSE EmptyObj)
        @@ Prop("potentialConcerns", c) @@ Prop("overallAssessment", a) :
        f \in Opt(BOOLEAN),
        invents \in BOOLEAN,
        c \in Opt({<<>>, << [concern |-> <<"High Sugar Content">>] >>}),
        a \in Opt({<<>>, <<"Mostly sugar.">>}) }

\* Mutant: the early return looks at isFound only.
ReturnsWithoutModel_FoundOnly(rev, productInfo) ==
    rev # "part002b" /\ productInfo.isFound = FALSE

\* !productInfo.isFound || !productInfo.ingredients || productInfo.ingredients.length === 0
NothingToAnalyze(productInfo) ==
    \/ productInfo.isFound = FALSE
    \/ Read(productInfo, "ingredients") = {}
    \/ Len(productInfo.ingredients) = 0

\* Whether the flow returns before the prompt call. Only the second file of
\* part_002 has no such return: it always calls the model.
ReturnsWithoutModel(rev, productInfo) ==
    rev # "part002b" /\ NothingToAnalyze(productInfo)

\* The early return of the mock-database revisions: a fresh object.
EarlyReturnMock(productInfo) ==
    [ isFound |-> productInfo.isFound,
      productName |-> The(OrStr(Read(productInfo, "productName"), {<<"Product not found">>})),
      potentialConcerns |-> <<>>,
      overallAssessment |->
          The(OrStr(Read(productInfo, "overallAssessment"),
                    {<<"Cannot analyze product due to missing information or product not found.">>})) ]
    @@ Prop("brand", Read(productInfo, "brand"))
    @@ Prop("ingredients", Read(productInfo, "ingredients"))
    @@ Prop("allergens", Read(productInfo, "allergens"))

\* Mutant: the early return always writes the missing-ingredients message.
EarlyReturnOff_AlwaysMissingData(productInfo) ==
    [overallAssessment |-> <<"Product information was found, but ingredient data is missing. Analysis cannot be performed.">>]
    @@ [k \in DOMAIN productInfo \ {"overallAssessment"} |-> productInfo[k]]

\* The early return of part_003 and the current revision: {...productInfo, overallAssessment}.
EarlyReturnOff(productInfo) ==
    Prop("overallAssessment",
         IF productInfo.isFound
         THEN {<<"Product information was found, but ingredient data is missing. Analysis cannot be performed.">>}
         ELSE Read(productInfo, "overallAssessment"))
    @@ [k \in DOMAIN productInfo \ {"overallAssessment"} |-> productInfo[k]]

\* What the flow returns when it skips the model.
BarcodeEarlyReturn(rev, productInfo) ==
    IF rev \in MockRevisions THEN Returned(EarlyReturnMock(productInfo))
    ELSE Returned(EarlyReturnOff(productInfo))

\* The product fields of the tool, listed one by one.
ToolFields(productInfo, keys) ==
    [k \in {x \in keys : x \in DOMAIN productInfo} |-> productInfo[k]]

\* Mutant: the merge of part_001 without the closing isFound: productInfo.isFound.
MergePart001_NoIsFoundPin(productInfo, outcome) ==
    IF outcome.kind = "throw" THEN Thrown
    ELSE IF outcome.kind = "null" THEN Returned(productInfo)
    ELSE Returned(outcome.output @@ productInfo)

\* part_001 after the prompt: no try/catch; {...productInfo, ...output, isFound}.
MergePart001(productInfo, outcome) ==
    IF outcome.kind = "throw" THEN Thrown
    ELSE IF outcome.kind = "null"
    THEN Returned(
            [ potentialConcerns |-> <<>>,
              overallAssessment |-> <<"AI analysis failed to generate a response.">> ]
            @@ ToolFields(productInfo, {"isFound", "productName", "brand", "ingredients", "allergens"}))
    ELSE Returned([isFound |-> productInfo.isFound] @@ outcome.output @@ productInfo)

\* part_002, first file, after the prompt: no try/catch; the tool's fields one by one.
MergePart002a(productInfo, outcome) ==
    IF outcome.kind = "throw" THEN Thrown
    ELSE IF outcome.kind = "null"
    THEN Returned(
            [ potentialConcerns |-> The(OrDef(Read(productInfo, "potentialConcerns"), {<<>>})),
              overallAssessment |-> <<"AI analysis failed to generate a response.">> ]
            @@ ToolFields(productInfo, {"isFound", "productName", "brand", "ingredients", "allergens"}))
    ELSE LET ai == outcome.output
         IN Returned(
            [ potentialConcerns |->
                  IF Read(ai, "potentialConcerns") # {} /\ Len(ai.potentialConcerns) > 0
                  THEN ai.potentialConcerns
                  ELSE The(OrDef(Read(productInfo, "potentialConcerns"), {<<>>})),
              overallAssessment |->
                  The(OrStr(Read(ai, "overallAssessment"),
                            OrStr(Read(productInfo, "overallAssessment"),
                                  {<<"AI could not provide an overall assessment.">>}))) ]
            @@ ToolFields(productInfo, {"isFound", "productName", "brand", "ingredients", "allergens"}))

\* tool.ingredients && tool.ingredients.length > 0 ? tool.ingredients : ai.ingredients
NonEmptyOr(a, b) == IF a # {} /\ Len(The(a)) > 0 THEN a ELSE b

\* part_002, second file, after the prompt: the AI's object with the tool's fields on top.
MergePart002b(productInfo, outcome) ==
    IF outcome.kind = "throw"
    THEN Returned(
            [ potentialConcerns |-> The(OrDef(Read(productInfo, "potentialConcerns"), {<<>>})),
              overallAssessment |-> <<"An error occurred during AI analysis of ingredients. Product details shown, but please review ingredients manually.">> ]
            @@ productInfo)
    ELSE IF outcome.kind = "null"
    THEN Returned(
            [ potentialConcerns |-> The(OrDef(Read(productInfo, "potentialConcerns"), {<<>>})),
              overallAssessment |->
                  The(OrStr(Read(productInfo, "overallAssessment"),
                            {<<"Product details retrieved, but AI analysis of ingredients could not be completed.">>})) ]
            @@ productInfo)
    ELSE LET ai == outcome.output
         IN Returned(
            [isFound |-> productInfo.isFound]
            @@ Prop("productName", OrStr(Read(productInfo, "productName"), Read(ai, "productName")))
            @@ Prop("brand", OrStr(Read(productInfo, "brand"), Read(ai, "brand")))
            @@ Prop("ingredients", NonEmptyOr(Read(productInfo, "ingredients"), Read(ai, "ingredients")))
            @@ Prop("allergens", NonEmptyOr(Read(productInfo, "allergens"), Read(ai, "allergens")))
            @@ Prop("imageUrl", OrStr(Read(productInfo, "imageUrl"), Read(ai, "imageUrl")))
            @@ Prop("source", OrStr(Read(productInfo, "source"), Read(ai, "source")))
            @@ [k \in DOMAIN ai \ {"productName", "brand", "ingredients", "allergens",
                                   "imageUrl", "source"} |-> ai[k]])

\* part_003 after the prompt: the tool's fields one by one, or {...productInfoFromTool}.
MergePart003(productInfo, outcome) ==
    IF outcome.kind = "throw"
    THEN Returned(
            [overallAssessment |-> <<"An error occurred during AI analysis of ingredients. Product details shown, but please review ingredients manually.">>]
            @@ productInfo)
    ELSE IF outcome.kind = "null"
    THEN Returned(
            [overallAssessment |-> <<"Product details retrieved, but AI analysis of ingredients could not be completed.">>]
            @@ productInfo)
    ELSE LET ai == outcome.output
         IN Returned(
            [ potentialConcerns |-> The(OrDef(Read(ai, "potentialConcerns"), {<<>>})),
              overallAssessment |->
                  The(OrStr(Read(ai, "overallAssessment"),
                            {<<"AI analysis of ingredients could not be completed.">>})) ]
            @@ ToolFields(productInfo, {"isFound", "productName", "brand", "ingredients",
                                        "allergens", "imageUrl", "source"}))

\* Mutant: the catch block also sets potentialConcerns: [].
MergeCurrentCatch_WithConcerns(productInfo) ==
    Returned(
        [ potentialConcerns |-> <<>>,
          overallAssessment |-> <<"An error occurred during AI analysis of ingredients. Product details shown, but please review ingredients manually.">> ]
        @@ productInfo)

\* Current revision, the catch block: {...productInfo, overallAssessment}.
MergeCurrentCatch(productInfo) ==
    Returned(
        [overallAssessment |-> <<"An error occurred during AI analysis of ingredients. Product details shown, but please review ingredients manually.">>]
        @@ productInfo)

\* Mutant: Step 4 spreads the model's object over the tool's, as part_001 did.
MergeCurrentTry_SpreadOutput(productInfo, outcome) ==
    Returned((IF outcome.kind = "null" THEN EmptyObj ELSE outcome.output) @@ productInfo)

\* Current revision, Step 4: {...productInfo, potentialConcerns, overallAssessment},
\* with aiAnalysisResult?.x for an output that may be null.
MergeCurrentTry(productInfo, outcome) ==
    LET ai == IF outcome.kind = "null" THEN EmptyObj ELSE outcome.output
    IN Returned(
        [ potentialConcerns |-> The(OrDef(Read(ai, "potentialConcerns"), {<<>>})),
          overallAssessment |->
              The(OrStr(Read(ai, "overallAssessment"),
                        {<<"AI analysis of ingredients could not be completed.">>})) ]
        @@ productInfo)

MergeCurrent(productInfo, outcome) ==
    IF outcome.kind = "throw" THEN MergeCurrentCatch(productInfo)
    ELSE MergeCurrentTry(productInfo, outcome)

\* What the flow completes with once the prompt call has settled.
BarcodeMerge(rev, productInfo, outcome) ==
    CASE rev = "part001" -> MergePart001(productInfo, outcome)
      [] rev = "part002a" -> MergePart002a(productInfo, outcome)
      [] rev = "part002b" -> MergePart002b(productInfo, outcome)
      [] rev = "part003" -> MergePart003(productInfo, outcome)
      [] rev = "current" -> MergeCurrent(productInfo, outcome)

(***************************************************************************)
(* The runs of the two flows                                               *)
(***************************************************************************)
FoodInit ==
    /\ foodPc = "idle"
    /\ foodOutcome = [kind |-> "none"]
    /\ foodResult = Returned(EmptyObj)

\* analyzeFoodItem(input): the flow starts and awaits the prompt.
AnalyzeFoodItemCall ==
    /\ foodPc \in {"idle", "done"}
    /\ foodPc' = "prompting"
    /\ foodOutcome' = [kind |-> "none"]
    /\ foodResult' = Returned(EmptyObj)
    /\ UNCHANGED <<barcodeVars, scanVars, parseVars>>

FoodComplete(outcome) ==
    /\ foodPc = "prompting"
    /\ foodPc' = "done"
    /\ foodOutcome' = outcome
    /\ foodResult' = analyzeFoodItemFlow(outcome)
    /\ UNCHANGED <<barcodeVars, scanVars, parseVars>>

\* await prompt(flowInput) rejects.
FoodPromptThrows ==
    /\ foodPc = "prompting"
    /\ FoodComplete([kind |-> "throw"])

\* await prompt(flowInput) resolves with no output.
FoodPromptNoOutput ==
    /\ foodPc = "prompting"
    /\ FoodComplete([kind |-> "null"])

\* The model answers with its own analysis.
FoodPromptDirect ==
    /\ foodPc = "prompting"
    /\ \E o \in ModelOutputs : FoodComplete([kind |-> "direct", output |-> o])

\* The model calls the simulateResults tool and answers with the tool's result.
FoodPromptSimulated ==
    /\ foodPc = "prompting"
    /\ \E i \in SimulateInputs :
          FoodComplete([kind |-> "tool", input |-> i, output |-> simulateResults(i)])

FoodNext ==
    \/ AnalyzeFoodItemCall
    \/ FoodPromptThrows
    \/ FoodPromptNoOutput
    \/ FoodPromptDirect
    \/ FoodPromptSimulated

BarcodeInit ==
    /\ bcRev = "none"
    /\ bcPc = "idle"
    /\ bcBarcode = ""
    /\ bcProductInfo = EmptyObj
    /\ bcOutcome = [kind |-> "none"]
    /\ bcPromptCalls = 0
    /\ bcResult = Returned(EmptyObj)

\* analyzeBarcode(input): the flow starts and awaits the tool. The first call
\* fixes which revision of the flow file is the deployed one.
AnalyzeBarcodeCall ==
    /\ bcPc \in {"idle", "done"}
    /\ \E rev \in (IF bcRev = "none" THEN Revisions ELSE {bcRev}) :
          /\ bcRev' = rev
          /\ \E b \in (IF rev \in MockRevisions THEN Barcodes ELSE OffBarcodes) : bcBarcode' = b
    /\ bcPc' = "fetching"
    /\ bcProductInfo' = EmptyObj
    /\ bcOutcome' = [kind |-> "none"]
    /\ bcPromptCalls' = 0
    /\ bcResult' = Returned(EmptyObj)
    /\ UNCHANGED <<foodVars, scanVars, parseVars>>

\* await fetchProductInfoByBarcodeTool(flowInput) has settled. The await is outside
\* any try block: a rejection ends the flow. Otherwise the flow returns early or
\* calls the prompt.
BarcodeToolSettled(tool) ==
    /\ IF tool.threw
       THEN /\ bcPc' = "done"
            /\ bcResult' = Thrown
            /\ UNCHANGED <<bcProductInfo, bcPromptCalls>>
       ELSE /\ bcProductInfo' = tool.value
            /\ IF ReturnsWithoutModel(bcRev, tool.value)
               THEN /\ bcPc' = "done"
                    /\ bcResult' = BarcodeEarlyReturn(bcRev, tool.value)
                    /\ UNCHANGED bcPromptCalls
               ELSE /\ bcPc' = "prompting"
                    /\ bcPromptCalls' = bcPromptCalls + 1
                    /\ UNCHANGED bcResult
    /\ UNCHANGED <<bcRev, bcBarcode, bcOutcome, foodVars, scanVars, parseVars>>

\* The mock-database tool looks the barcode up.
BarcodeMockLookup ==
    /\ bcPc = "fetching"
    /\ bcRev \in MockRevisions
    /\ BarcodeToolSettled(IF bcRev = "part001" THEN fetchProductInfoPart001(bcBarcode)
                           ELSE fetchProductInfoPart002a(bcBarcode))

BarcodeOffResponse(response) ==
    /\ bcPc = "fetching"
    /\ bcRev \notin MockRevisions
    /\ BarcodeToolSettled(fetchProductInfoOff(bcRev, response))

\* await fetch(apiUrl) rejects.
BarcodeFetchThrows ==
    /\ bcPc = "fetching"
    /\ BarcodeOffResponse([kind |-> "fetchThrows"])

\* The API answers with a non-OK status.
BarcodeFetchNotOk ==
    /\ bcPc = "fetching"
    /\ \E r \in {x \in Responses : x.kind = "notOk"} : BarcodeOffResponse(r)

\* await response.json() rejects, or yields null so that data.status throws.
BarcodeJsonFails ==
    /\ bcPc = "fetching"
    /\ \E r \in {x \in Responses : x.kind \in {"jsonThrows", "jsonNull"}} : BarcodeOffResponse(r)

\* The API answers with a JSON object.
BarcodeJsonParsed ==
    /\ bcPc = "fetching"
    /\ \E r \in {x \in Responses : x.kind = "json"} : BarcodeOffResponse(r)

BarcodePromptSettles(outcome) ==
    /\ bcPc = "prompting"
    /\ bcPc' = "done"
    /\ bcOutcome' = outcome
    /\ bcResult' = BarcodeMerge(bcRev, bcProductInfo, outcome)
    /\ UNCHANGED <<bcRev, bcBarcode, bcProductInfo, bcPromptCalls, foodVars, scanVars, parseVars>>

\* await prompt(...) rejects.
BarcodePromptThrows ==
    /\ bcPc = "prompting"
    /\ BarcodePromptSettles([kind |-> "throw"])

\* await prompt(...) resolves with a null output.
BarcodePromptNoOutput ==
    /\ bcPc = "prompting"
    /\ BarcodePromptSettles([kind |-> "null"])

\* await prompt(...) resolves with a structured output.
BarcodePromptOutput ==
    /\ bcPc = "prompting"
    /\ \E o \in ModelBarcodeOutputs : BarcodePromptSettles([kind |-> "output", output |-> o])

BarcodeNext ==
    \/ AnalyzeBarcodeCall
    \/ BarcodeMockLookup
    \/ BarcodeFetchThrows
    \/ BarcodeFetchNotOk
    \/ BarcodeJsonFails
    \/ BarcodeJsonParsed
    \/ BarcodePromptThrows
    \/ BarcodePromptNoOutput
    \/ BarcodePromptOutput

(***************************************************************************)
(* ScanPageClient (current revision): component state and camera effect    *)
(***************************************************************************)
MaxRequests == 3

MaxPendingReads == 2

\* The component's state, refs and environment as one value.
ScanState ==
    [ imagePreview |-> imagePreview, imageDataUri |-> imageDataUri,
      analysisResult |-> analysisResult, isLoading |-> isLoading, error |-> error,
      hasCameraPermission |-> hasCameraPermission, activeTab |-> activeTab,
      streamRef |-> streamRef, srcObject |-> srcObject, videoPlaying |-> videoPlaying,
      stopped |-> stopped, tasks |-> tasks, cleanupOf |-> cleanupOf,
      pendingReads |-> pendingReads, analyzePending |-> analyzePending,
      speakCalls |-> speakCalls, toast |-> toast,
      mediaDevices |-> mediaDevices, speechSynthesis |-> speechSynthesis ]

\* useState/useRef initial values.
InitialScanState(media, speech) ==
    [ imagePreview |-> FALSE, imageDataUri |-> FALSE,
      analysisResult |-> {}, isLoading |-> FALSE, error |-> FALSE,
      hasCameraPermission |-> "null", activeTab |-> "image-scan",
      streamRef |-> 0, srcObject |-> 0, videoPlaying |-> FALSE,
      stopped |-> {}, tasks |-> <<>>, cleanupOf |-> 0,
      pendingReads |-> 0, analyzePending |-> FALSE,
      speakCalls |-> 0, toast |-> "",
      mediaDevices |-> media, speechSynthesis |-> speech ]

\* The <video> element is rendered (videoRef.current is non-null).
VideoMounted(s) == s.activeTab = "image-scan" /\ ~s.imagePreview

\* The dependency list of the camera effect (toast is stable).
Deps(s) == <<s.imagePreview, s.hasCameraPermission, s.activeTab>>

\* streamRef.current.getTracks().forEach(track => track.stop()); streamRef.current = null
StopStreamRef(s) ==
    IF s.streamRef # 0
    THEN [s EXCEPT !.stopped = @ \cup {s.streamRef}, !.streamRef = 0]
    ELSE s

\* if (videoRef.current) videoRef.current.srcObject = null
ClearSrcObject(s) ==
    IF VideoMounted(s) THEN [s EXCEPT !.srcObject = 0, !.videoPlaying = FALSE] ELSE s

\* React commits a render: a <video> that is no longer rendered is removed.
Commit(s) ==
    IF VideoMounted(s) THEN s ELSE [s EXCEPT !.srcObject = 0, !.videoPlaying = FALSE]

\* The cleanup function the camera effect returned on its previous run.
EffectCleanup(s) ==
    IF s.cleanupOf = 0
    THEN s
    ELSE ClearSrcObject(StopStreamRef(
             [s EXCEPT !.tasks[s.cleanupOf].mounted = FALSE, !.cleanupOf = 0]))

\* Mutant: leaving the tab resets every decided permission, not only a granted one.
ResetsPermissionOnLeave_AnyDecided(s) ==
    s.activeTab # "image-scan" /\ s.hasCameraPermission # "null"

\* activeTab !== "image-scan" && hasCameraPermission
ResetsPermissionOnLeave(s) ==
    s.activeTab # "image-scan" /\ s.hasCameraPermission = "true"

\* The body of the camera effect; getCameraStream() runs up to its first await.
EffectBody(s) ==
    IF s.imagePreview \/ s.activeTab # "image-scan"
    THEN LET s1 == ClearSrcObject(StopStreamRef(s))
         IN IF ResetsPermissionOnLeave(s)
            THEN [s1 EXCEPT !.hasCameraPermission = "null"]
            ELSE s1
    ELSE IF s.hasCameraPermission = "null"
    THEN IF ~s.mediaDevices
         THEN [s EXCEPT !.hasCameraPermission = "false", !.toast = "Camera Not Supported"]
         ELSE [s EXCEPT !.tasks = Append(@, [phase |-> "getUserMedia", mounted |-> TRUE]),
                        !.cleanupOf = Len(s.tasks) + 1]
    ELSE s

\* A render after state updates: when a dependency differs from the previous
\* effect run, the previous cleanup runs and then the effect; an effect that
\* sets state causes the next render.
RECURSIVE Render(_, _)
Render(prevDeps, s) ==
    LET c == Commit(s)
    IN IF Deps(c) = prevDeps
       THEN c
       ELSE Render(Deps(c), EffectBody(EffectCleanup(c)))

\* The first render runs the effect unconditionally.
FirstRender(s) == Render(Deps(s), EffectBody(Commit(s)))

\* handleCaptureImage's readiness check passes.
CaptureReady(s) ==
    /\ VideoMounted(s)
    /\ s.srcObject # 0
    /\ s.videoPlaying
    /\ s.srcObject \notin s.stopped
    /\ s.hasCameraPermission = "true"

\* disabled={isLoading || hasCameraPermission !== true}
CaptureDisabled(s) == s.isLoading \/ s.hasCameraPermission # "true"

\* disabled={isLoading}
UploadDisabled(s) == s.isLoading

\* disabled={isLoading || !imageDataUri}
AnalyzeDisabled(s) == s.isLoading \/ ~s.imageDataUri

\* speakResults(result)
speakResults(s, result) ==
    IF result.identification.isFoodItem /\ s.speechSynthesis
    THEN [s EXCEPT !.speakCalls = @ + 1]
    ELSE s

\* What analyzeFoodItem hands to handleAnalyze: a result of the flow, or a
\* rejection of the server action call itself.
ScanAnalyzeCompletions ==
    {Thrown}
    \cup {analyzeFoodItemFlow(o) :
            o \in {[kind |-> "throw"], [kind |-> "null"]}
                  \cup {[kind |-> "direct",
                         output |-> [identification |-> [isFoodItem |-> f] @@ Prop("name", n)]] :
                            f \in BOOLEAN, n \in Opt({<<"Apple">>})}
                  \cup {[kind |-> "tool", input |-> i, output |-> simulateResults(i)] :
                            i \in {[itemType |-> <<"fruit">>]}}}

(***************************************************************************)
(* ScanPageClient: handlers and asynchronous completions                   *)
(***************************************************************************)
ScanInit ==
    /\ pageMounted = FALSE
    /\ imagePreview = FALSE
    /\ imageDataUri = FALSE
    /\ analysisResult = {}
    /\ isLoading = FALSE
    /\ error = FALSE
    /\ hasCameraPermission = "null"
    /\ activeTab = "image-scan"
    /\ streamRef = 0
    /\ srcObject = 0
    /\ videoPlaying = FALSE
    /\ stopped = {}
    /\ tasks = <<>>
    /\ cleanupOf = 0
    /\ pendingReads = 0
    /\ analyzePending = FALSE
    /\ speakCalls = 0
    /\ toast = ""
    /\ mediaDevices = FALSE
    /\ speechSynthesis = FALSE

\* The state s becomes the component's state.
ScanUpdate(s) ==
    /\ imagePreview' = s.imagePreview
    /\ imageDataUri' = s.imageDataUri
    /\ analysisResult' = s.analysisResult
    /\ isLoading' = s.isLoading
    /\ error' = s.error
    /\ hasCameraPermission' = s.hasCameraPermission
    /\ activeTab' = s.activeTab
    /\ streamRef' = s.streamRef
    /\ srcObject' = s.srcObject
    /\ videoPlaying' = s.videoPlaying
    /\ stopped' = s.stopped
    /\ tasks' = s.tasks
    /\ cleanupOf' = s.cleanupOf
    /\ pendingReads' = s.pendingReads
    /\ analyzePending' = s.analyzePending
    /\ speakCalls' = s.speakCalls
    /\ toast' = s.toast
    /\ mediaDevices' = s.mediaDevices
    /\ speechSynthesis' = s.speechSynthesis

\* A handler or callback left the state s; React renders and runs the effect.
ScanStep(s) ==
    LET after == Render(Deps(ScanState), s)
    IN /\ Len(after.tasks) <= MaxRequests
       /\ ScanUpdate(after)
       /\ UNCHANGED <<pageMounted, foodVars, barcodeVars, parseVars>>

\* The page is opened in a browser: first render and first effect run.
ScanMount ==
    /\ ~pageMounted
    /\ pageMounted' = TRUE
    /\ \E media \in BOOLEAN, speech \in BOOLEAN :
          ScanUpdate(FirstRender(InitialScanState(media, speech)))
    /\ UNCHANGED <<foodVars, barcodeVars, parseVars>>

\* await navigator.mediaDevices.getUserMedia({ video: true }) resolves for call i.
GetUserMediaResolves ==
    /\ pageMounted
    /\ \E i \in DOMAIN tasks :
          /\ tasks[i].phase = "getUserMedia"
          /\ LET s == ScanState
             IN ScanStep(
                  IF ~s.tasks[i].mounted
                  THEN [s EXCEPT !.stopped = @ \cup {i}, !.tasks[i].phase = "done"]
                  ELSE IF VideoMounted(s)
                  THEN [s EXCEPT !.streamRef = i, !.srcObject = i, !.videoPlaying = FALSE,
                                 !.tasks[i].phase = "play"]
                  ELSE [s EXCEPT !.streamRef = i, !.stopped = @ \cup {i},
                                 !.hasCameraPermission = "false",
                                 !.tasks[i].phase = "done"])

\* getUserMedia rejects for call i (permission denied, no camera, camera busy).
GetUserMediaRejects ==
    /\ pageMounted
    /\ \E i \in DOMAIN tasks :
          /\ tasks[i].phase = "getUserMedia"
          /\ LET s == ScanState
             IN ScanStep(
                  IF s.tasks[i].mounted
                  THEN [s EXCEPT !.hasCameraPermission = "false",
                                 !.toast = "Camera Access Denied or Failed",
                                 !.tasks[i].phase = "rejected"]
                  ELSE [s EXCEPT !.tasks[i].phase = "rejected"])

\* await videoRef.current.play() resolves for call i.
PlayResolves ==
    /\ pageMounted
    /\ \E i \in DOMAIN tasks :
          /\ tasks[i].phase = "play"
          /\ LET s == ScanState
                 playing == IF s.srcObject # 0
                            THEN [s EXCEPT !.videoPlaying = TRUE, !.tasks[i].phase = "done"]
                            ELSE [s EXCEPT !.tasks[i].phase = "done"]
             IN ScanStep(
                  IF s.tasks[i].mounted /\ VideoMounted(s) /\ s.srcObject # 0
                  THEN [playing EXCEPT !.hasCameraPermission = "true"]
                  ELSE playing)

\* videoRef.current.play() rejects for call i: the .catch handler runs.
PlayRejects ==
    /\ pageMounted
    /\ \E i \in DOMAIN tasks :
          /\ tasks[i].phase = "play"
          /\ LET s == ScanState
                 s1 == IF s.tasks[i].mounted
                       THEN [s EXCEPT !.hasCameraPermission = "false",
                                      !.toast = "Camera Playback Failed"]
                       ELSE s
                 s2 == ClearSrcObject([s1 EXCEPT !.stopped = @ \cup {i}])
             IN ScanStep([s2 EXCEPT !.streamRef = 0, !.tasks[i].phase = "done"])

\* The user clicks Capture Image.
handleCaptureImage ==
    /\ pageMounted
    /\ VideoMounted(ScanState)
    /\ ~CaptureDisabled(ScanState)
    /\ LET s == ScanState
       IN ScanStep(
            IF ~CaptureReady(s)
            THEN [s EXCEPT !.toast = "Capture Failed"]
            ELSE [s EXCEPT !.imageDataUri = TRUE, !.imagePreview = TRUE,
                           !.analysisResult = {}, !.error = FALSE])

\* The user picks a file after clicking Upload Image File.
handleFileChange ==
    /\ pageMounted
    /\ VideoMounted(ScanState)
    /\ ~UploadDisabled(ScanState)
    /\ pendingReads < MaxPendingReads
    /\ LET s == ClearSrcObject(StopStreamRef(ScanState))
       IN ScanStep([s EXCEPT !.hasCameraPermission = "false", !.pendingReads = @ + 1])

\* reader.onloadend
FileReaderLoadEnd ==
    /\ pageMounted
    /\ pendingReads > 0
    /\ ScanStep([ScanState EXCEPT !.pendingReads = @ - 1,
                                  !.imageDataUri = TRUE, !.imagePreview = TRUE,
                                  !.analysisResult = {}, !.error = FALSE])

\* The user clicks Scan Another.
handleRetake ==
    /\ pageMounted
    /\ activeTab = "image-scan"
    /\ imagePreview
    /\ ~isLoading
    /\ LET s == ClearSrcObject(StopStreamRef(ScanState))
       IN ScanStep([s EXCEPT !.imagePreview = FALSE, !.imageDataUri = FALSE,
                             !.analysisResult = {}, !.error = FALSE,
                             !.hasCameraPermission = "null"])

\* The user clicks Analyze Image: handleAnalyze up to its await.
handleAnalyze ==
    /\ pageMounted
    /\ activeTab = "image-scan"
    /\ imagePreview
    /\ ~AnalyzeDisabled(ScanState)
    /\ ScanStep([ScanState EXCEPT !.isLoading = TRUE, !.error = FALSE,
                                  !.analysisResult = {}, !.analyzePending = TRUE,
                                  !.speakCalls = 0])

\* await analyzeFoodItem(...) settles: the rest of handleAnalyze.
AnalyzeSettles ==
    /\ pageMounted
    /\ analyzePending
    /\ \E c \in ScanAnalyzeCompletions :
          LET s == ScanState
              s1 == IF c.threw
                    THEN [s EXCEPT !.error = TRUE, !.toast = "Analysis Failed"]
                    ELSE LET shown == [s EXCEPT !.analysisResult = {c.value}]
                         IN IF c.value.identification.isFoodItem
                            THEN speakResults(shown, c.value)
                            ELSE shown
          IN ScanStep([s1 EXCEPT !.isLoading = FALSE, !.analyzePending = FALSE])

\* The user selects the other tab.
setActiveTab ==
    /\ pageMounted
    /\ \E tab \in {"image-scan", "barcode-scan"} :
          /\ tab # activeTab
          /\ ScanStep([ScanState EXCEPT !.activeTab = tab])

ScanNext ==
    \/ ScanMount
    \/ GetUserMediaResolves
    \/ GetUserMediaRejects
    \/ PlayResolves
    \/ PlayRejects
    \/ handleCaptureImage
    \/ handleFileChange
    \/ FileReaderLoadEnd
    \/ handleRetake
    \/ handleAnalyze
    \/ AnalyzeSettles
    \/ setActiveTab

(***************************************************************************)
(* fetchProductInfoByBarcode applied to one product of the API response    *)
(***************************************************************************)
MaxTextLen == 4

MaxRestLen == 3

\* Characters of an ingredients text: letters, the underscore Open Food Facts
\* puts around allergens, the two separators and whitespace.
IngredientChars == {"a", "b", "_", ",", ";", " "}

\* product.ingredients_text values.
IngredientTexts == UNION {[1..n -> IngredientChars] : n \in 0..MaxTextLen}

\* What precedes the name in an allergens_tags entry: nothing, a language
\* prefix, or something that is not two lowercase letters and a colon.
TagPrefixes == {<<>>, <<"e", "n", ":">>, <<"E", "n", ":">>, <<"e", ":">>}

\* product.allergens_tags entries.
AllergenTags ==
    {p \o r : p \in TagPrefixes,
              r \in UNION {[1..n -> {"a", "-", " "}] : n \in 0..MaxRestLen}}

\* product.allergens_tags values: undefined, or a list of up to two entries.
AllergenTagLists ==
    {{}} \cup {{<<>>}} \cup {{<<t>>} : t \in {u \in AllergenTags : Len(u) <= 4}}
    \cup {{<<t, u>>} : t \in {<<"e", "n", ":", "a">>, <<"-">>, <<"e", "n", ":">>, <<"a", "-", "a">>},
                       u \in AllergenTags}

\* The revisions that read the Open Food Facts API.
OffRevisions == Revisions \ MockRevisions

ParseInit ==
    /\ parseRev = "none"
    /\ parseProduct = EmptyObj
    /\ parseReturn = EmptyObj

\* The handler reaches its found branch with the product (one call per run).
ParseProduct(rev, product) ==
    /\ parseRev' = rev
    /\ parseProduct' = product
    /\ parseReturn' = OffFoundReturn(rev, product)
    /\ UNCHANGED <<foodVars, barcodeVars, scanVars>>

\* The product carries an ingredients text.
ParseIngredientsText ==
    /\ parseRev = "none"
    /\ \E rev \in OffRevisions, text \in IngredientTexts :
          ParseProduct(rev, [ingredients_text |-> JString(text)])

\* The product carries allergen tags, or none.
ParseAllergenTags ==
    /\ parseRev = "none"
    /\ \E rev \in OffRevisions, tags \in AllergenTagLists :
          ParseProduct(rev,
              Prop("allergens_tags",
                   {JArray([k \in 1..Len(t) |-> JString(t[k])]) : t \in tags}))

ParseNext ==
    \/ ParseIngredientsText
    \/ ParseAllergenTags

Init == FoodInit /\ BarcodeInit /\ ScanInit /\ ParseInit

FoodSpec == Init /\ [][FoodNext]_vars

BarcodeSpec == Init /\ [][BarcodeNext]_vars

ScanSpec == Init /\ [][ScanNext]_vars

ParseSpec == Init /\ [][ParseNext]_vars

(***************************************************************************)
(* Claims about analyzeFoodItem                                            *)
(***************************************************************************)
\* A result is the simulated analysis of the simulateResults tool.
IsSimulatedAnalysis(r) ==
    /\ r.identification.isFoodItem = TRUE
    /\ "name" \in DOMAIN r.identification
    /\ Len(r.identification.name) > 0
    /\ Head(r.identification.name) = "Simulated"
    /\ Read(r, "edibility") = {"Wash & Eat"}

\* The model reported a food item with identification confidence below 0.7.
LowConfidenceFood(outcome) ==
    /\ outcome.kind \in {"direct", "tool"}
    /\ outcome.output.identification.isFoodItem = TRUE
    /\ "confidence" \in DOMAIN outcome.output.identification
    /\ outcome.output.identification.confidence < ConfidenceThreshold

\* C1: analyzeFoodItem never propagates a failure of the model call: when the
\* prompt call throws the flow returns exactly {identification: {isFoodItem:
\* false, name: 'Analysis failed due to a system error.'}}, and when it resolves
\* with no output exactly {identification: {isFoodItem: false, name: 'Analysis
\* incomplete. The AI could not process the image.'}}, with no other field.
C1_FailureIsReturned ==
    foodPc = "done" =>
        /\ foodResult.threw = FALSE
        /\ foodOutcome.kind = "throw" =>
              foodResult.value = [identification |->
                  [isFoodItem |-> FALSE,
                   name |-> <<"Analysis failed due to a system error.">>]]
        /\ foodOutcome.kind = "null" =>
              foodResult.value = [identification |->
                  [isFoodItem |-> FALSE,
                   name |-> <<"Analysis incomplete. The AI could not process the image.">>]]

C1_Witness ==
    /\ foodPc = "done"
    /\ foodOutcome.kind = "throw"
    /\ foodResult.threw = FALSE
    /\ foodResult.value.identification.isFoodItem = FALSE

\* C2 as stated: whenever the model call throws, or the model reports a food
\* item with confidence below 0.7, the result returned is the simulateResults
\* tool's simulated analysis.
C2_SimulatedOnLowConfidenceOrError ==
    (foodPc = "done" /\ (foodOutcome.kind = "throw" \/ LowConfidenceFood(foodOutcome)))
        => (foodResult.threw = FALSE /\ IsSimulatedAnalysis(foodResult.value))

\* C2 amended: the flow never substitutes simulated data itself. The result is
\* the simulateResults tool's analysis (isFoodItem true, name starting with
\* 'Simulated', edibility 'Wash & Eat') when the model answered with the tool's
\* output; when the model call throws the result is the non-food error state;
\* and a food item the model reports directly with confidence below 0.7 keeps
\* the model's own confidence, components, residues and edibility.
C2_SimulatedOnlyThroughTool ==
    foodPc = "done" =>
        /\ foodOutcome.kind = "tool" =>
              /\ foodResult = Returned(simulateResults(foodOutcome.input))
              /\ IsSimulatedAnalysis(foodResult.value)
        /\ foodOutcome.kind = "throw" =>
              /\ foodResult.threw = FALSE
              /\ foodResult.value.identification.isFoodItem = FALSE
              /\ ~IsSimulatedAnalysis(foodResult.value)
        /\ (foodOutcome.kind = "direct" /\ LowConfidenceFood(foodOutcome)) =>
              /\ foodResult.threw = FALSE
              /\ foodResult.value.identification.isFoodItem = TRUE
              /\ Read(foodResult.value.identification, "confidence")
                    = Read(foodOutcome.output.identification, "confidence")
              /\ \A k \in {"components", "chemicalResidues", "edibility"} :
                    Read(foodResult.value, k) = Read(foodOutcome.output, k)

C2_Witness ==
    /\ foodPc = "done"
    /\ foodOutcome.kind = "direct"
    /\ LowConfidenceFood(foodOutcome)
    /\ Read(foodOutcome.output, "edibility") = {"Unsafe"}
    /\ Read(foodResult.value, "edibility") = {"Unsafe"}

\* C6: every result with identification.isFoodItem = false holds only
\* identification.isFoodItem and a non-empty identification.name; every other
\* field is absent, whatever the model put in it.
C6_NonFoodResultIsMinimal ==
    (foodPc = "done" /\ foodResult.threw = FALSE
        /\ foodResult.value.identification.isFoodItem = FALSE) =>
        /\ DOMAIN foodResult.value = {"identification"}
        /\ DOMAIN foodResult.value.identification = {"isFoodItem", "name"}
        /\ foodResult.value.identification.name # <<>>

C6_Witness ==
    /\ foodPc = "done"
    /\ foodOutcome.kind = "direct"
    /\ foodOutcome.output.identification.isFoodItem = FALSE
    /\ DOMAIN foodOutcome.output = {"identification", "components", "chemicalResidues", "edibility"}
    /\ "confidence" \in DOMAIN foodOutcome.output.identification
    /\ DOMAIN foodResult.value = {"identification"}

(***************************************************************************)
(* Claims about analyzeBarcode                                             *)
(***************************************************************************)
\* The product fields that the tool owns.
ProductFields == {"isFound", "productName", "brand", "ingredients", "allergens", "imageUrl", "source"}

\* What the prompt call of the current run can produce.
BarcodeOutcomes ==
    {[kind |-> "throw"], [kind |-> "null"]}
    \cup {[kind |-> "output", output |-> o] : o \in ModelBarcodeOutputs}

\* C3: analyzeBarcode (current revision) never propagates an exception: whatever
\* the HTTP request and the model call do, the flow completes with a result object
\* whose isFound is a boolean.
C3_BarcodeNeverThrows ==
    (bcRev = "current" /\ bcPc = "done") =>
        /\ bcResult.threw = FALSE
        /\ "isFound" \in DOMAIN bcResult.value
        /\ bcResult.value.isFound \in BOOLEAN

C3_Witness ==
    /\ bcRev = "current"
    /\ bcPc = "done"
    /\ bcResult.threw = FALSE
    /\ bcProductInfo.productName = <<"Error during API request">>
    /\ bcResult.value.isFound = FALSE

\* C4: in the current revision the tool is the source of truth for product data:
\* the result's isFound, productName, brand, ingredients, allergens, imageUrl and
\* source are exactly the tool's; any two model behaviours on the same tool result
\* agree on them; the model can influence only potentialConcerns and
\* overallAssessment.
C4_ToolIsSourceOfTruth ==
    /\ (bcRev = "current" /\ bcPc = "done") =>
          /\ bcResult.threw = FALSE
          /\ \A k \in (ProductFields \cup DOMAIN bcResult.value \cup DOMAIN bcProductInfo)
                        \ {"potentialConcerns", "overallAssessment"} :
                Read(bcResult.value, k) = Read(bcProductInfo, k)
    /\ (bcRev = "current" /\ bcPc = "prompting") =>
          \A o1, o2 \in BarcodeOutcomes :
              LET r1 == BarcodeMerge(bcRev, bcProductInfo, o1)
                  r2 == BarcodeMerge(bcRev, bcProductInfo, o2)
              IN /\ r1.threw = FALSE
                 /\ r2.threw = FALSE
                 /\ \A k \in ProductFields : Read(r1.value, k) = Read(r2.value, k)

C4_Witness ==
    /\ bcRev = "current"
    /\ bcPc = "done"
    /\ bcOutcome.kind = "output"
    /\ Read(bcOutcome.output, "productName") = {<<"Invented name">>}
    /\ Read(bcOutcome.output, "isFound") = {FALSE}
    /\ bcResult.value.productName = <<"Choco Spread EN">>
    /\ bcResult.value.isFound = TRUE
    /\ "imageUrl" \in DOMAIN bcResult.value
    /\ bcResult.value.overallAssessment = <<"Mostly sugar.">>

\* C5: in every revision, the isFound of the returned result equals the isFound
\* returned by fetchProductInfoByBarcode; an isFound present or absent in the
\* model's output never overwrites it.
C5_IsFoundFromTool ==
    (bcPc = "done" /\ bcResult.threw = FALSE) =>
        Read(bcResult.value, "isFound") = {bcProductInfo.isFound}

C5_Witness ==
    /\ bcRev = "part001"
    /\ bcPc = "done"
    /\ bcOutcome.kind = "output"
    /\ Read(bcOutcome.output, "isFound") = {FALSE}
    /\ bcProductInfo.isFound = TRUE
    /\ bcResult.threw = FALSE
    /\ bcResult.value.isFound = TRUE

\* C10: in the current revision and in part_003, the model prompt is invoked only
\* after the tool has returned isFound = true with a non-empty ingredients list;
\* when the product is not found or has no ingredients the flow returns without
\* ever calling the model.
C10_ModelOnlyWithIngredients ==
    bcRev \in {"current", "part003"} =>
        /\ bcPromptCalls <= 1
        /\ (bcPromptCalls > 0 \/ bcPc = "prompting" \/ bcOutcome.kind # "none") =>
              /\ bcProductInfo.isFound = TRUE
              /\ Len(bcProductInfo.ingredients) > 0
        /\ (bcPc = "done" /\ NothingToAnalyze(bcProductInfo)) =>
              /\ bcPromptCalls = 0
              /\ bcOutcome.kind = "none"

C10_Witness ==
    /\ bcRev = "current"
    /\ bcPc = "done"
    /\ bcProductInfo.isFound = TRUE
    /\ bcProductInfo.ingredients = <<>>
    /\ bcPromptCalls = 0
    /\ bcResult.value.overallAssessment =
          <<"Product information was found, but ingredient data is missing. Analysis cannot be performed.">>

(***************************************************************************)
(* Claims about ScanPageClient                                             *)
(***************************************************************************)
\* C7: on the image-scan tab with no preview, once hasCameraPermission is true
\* the obtained MediaStream stays attached to the video element (streamRef
\* non-null, tracks not stopped), so that handleCaptureImage passes its
\* readiness check.
C7_StreamStaysAttached ==
    (pageMounted /\ activeTab = "image-scan" /\ ~imagePreview
        /\ hasCameraPermission = "true")
    => /\ streamRef # 0
       /\ srcObject = streamRef
       /\ streamRef \notin stopped
       /\ CaptureReady(ScanState)

\* A getUserMedia request is rejected in this step.
RejectedNow(i) == tasks[i].phase = "getUserMedia" /\ tasks'[i].phase = "rejected"

\* The step is handleRetake: only it removes the preview.
RetakeStep == imagePreview /\ ~imagePreview'

\* C8 as stated: whenever the request is rejected hasCameraPermission becomes
\* false and Capture Image is disabled, and after a rejection no further camera
\* request is made until handleRetake.
C8_EveryRejectionDenies ==
    [][ /\ \A i \in DOMAIN tasks :
              RejectedNow(i) =>
                  /\ hasCameraPermission' = "false"
                  /\ CaptureDisabled(ScanState)'
        /\ ((\E i \in DOMAIN tasks : tasks[i].phase = "rejected")
                /\ Len(tasks') > Len(tasks))
           => RetakeStep ]_vars

C8_DeniedState ==
    pageMounted =>
        /\ ~mediaDevices => (hasCameraPermission = "false" /\ tasks = <<>>)
        /\ hasCameraPermission = "false" => CaptureDisabled(ScanState)
        /\ VideoMounted(ScanState) => ~UploadDisabled(ScanState)

C8_DeniedStep ==
    /\ \A i \in DOMAIN tasks :
          RejectedNow(i) =>
              IF tasks[i].mounted
              THEN hasCameraPermission' = "false"
              ELSE hasCameraPermission' = hasCameraPermission
    /\ hasCameraPermission = "false"
       => \/ hasCameraPermission' = "false" /\ Len(tasks') = Len(tasks)
          \/ RetakeStep

\* C8 (amended): without getUserMedia, or when the request is rejected while the
\* effect that made it is still mounted, hasCameraPermission becomes false; a
\* rejection that arrives after the effect was cleaned up leaves
\* hasCameraPermission as it is. While hasCameraPermission is false Capture Image
\* is disabled, it stays false and no camera request is made until handleRetake,
\* and whenever the Upload Image File button is rendered it is enabled.
C8_FallbackWhileMounted == []C8_DeniedState /\ [][C8_DeniedStep]_vars

\* A mounted request was rejected, and an image was then uploaded and analyzed.
C8_Witness ==
    /\ toast = "Camera Access Denied or Failed"
    /\ hasCameraPermission = "false"
    /\ imagePreview
    /\ analysisResult # {}

\* C9: whenever handleAnalyze has obtained a result and speech synthesis is
\* available, speechSynthesis.speak was called exactly once for it by the time
\* isLoading is false again.
C9_ResultIsSpoken ==
    (pageMounted /\ speechSynthesis /\ analysisResult # {} /\ ~isLoading)
    => speakCalls = 1

(***************************************************************************)
(* Claims about the mock-database revision (part_001)                      *)
(***************************************************************************)
\* C11: in part_001 the isFound of analyzeBarcode's result equals the isFound
\* recorded in the barcode's mockProductDatabase entry, and is false when the
\* barcode has no entry.
C11_IsFoundAsRecorded ==
    (bcRev = "part001" /\ bcPc = "done" /\ ~bcResult.threw)
    => bcResult.value.isFound
         = (/\ bcBarcode \in DOMAIN mockProductDatabase
            /\ mockProductDatabase[bcBarcode].isFound)

(***************************************************************************)
(* Claims about the parsing of the Open Food Facts product                 *)
(***************************************************************************)
\* The pieces of a text between its commas and semicolons, in order.
RECURSIVE SegmentsOf(_)
SegmentsOf(text) ==
    IF \A i \in 1..Len(text) : text[i] \notin {",", ";"}
    THEN <<text>>
    ELSE LET i == CHOOSE x \in 1..Len(text) :
                     /\ text[x] \in {",", ";"}
                     /\ \A y \in 1..(x - 1) : text[y] \notin {",", ";"}
         IN <<SubSeq(text, 1, i - 1)>> \o SegmentsOf(SubSeq(text, i + 1, Len(text)))

\* The segments without underscores and surrounding whitespace, empty ones left out.
RECURSIVE CleanNonEmpty(_)
CleanNonEmpty(segments) ==
    IF segments = <<>> THEN <<>>
    ELSE LET clean == Trim(RemoveChar(Head(segments), "_"))
         IN (IF clean = <<>> THEN <<>> ELSE <<clean>>) \o CleanNonEmpty(Tail(segments))

\* C12: in the current revision every element of the returned ingredients list
\* is a non-empty string without leading or trailing whitespace and without an
\* underscore, and the elements are, in order, the segments of the text between
\* commas and semicolons.
C12_IngredientsAreCleanSegments ==
    (parseRev = "current" /\ "ingredients_text" \in DOMAIN parseProduct)
    => LET text == parseProduct.ingredients_text.val
           list == parseReturn.ingredients
       IN /\ \A k \in 1..Len(list) :
                /\ list[k] # <<>>
                /\ list[k][1] # " "
                /\ list[k][Len(list[k])] # " "
                /\ \A i \in 1..Len(list[k]) : list[k][i] # "_"
          /\ list = CleanNonEmpty(SegmentsOf(text))


\* The allergens_tags entries of the parsed product as plain strings.
ParsedTags ==
    IF "allergens_tags" \in DOMAIN parseProduct
    THEN [k \in 1..Len(parseProduct.allergens_tags.val) |-> parseProduct.allergens_tags.val[k].val]
    ELSE <<>>

\* The handler was applied to a product's allergen tags.
AllergensParsed == parseRev # "none" /\ "ingredients_text" \notin DOMAIN parseProduct

\* Two lowercase letters, a colon, then a rest.
HasLanguagePrefix(tag) ==
    /\ Len(tag) >= 3
    /\ tag[1] \in LowerCaseLetters
    /\ tag[2] \in LowerCaseLetters
    /\ tag[3] = ":"

\* The rest of a prefixed entry (an unprefixed entry as a whole), hyphens
\* replaced by spaces and surrounding whitespace trimmed.
CleanedTag(tag) ==
    Trim(HyphensToSpaces(IF HasLanguagePrefix(tag) THEN SubSeq(tag, 4, Len(tag)) ELSE tag))

\* a is b with some elements left out, order kept.
RECURSIVE IsSubsequence(_, _)
IsSubsequence(a, b) ==
    IF a = <<>> THEN TRUE
    ELSE IF b = <<>> THEN FALSE
    ELSE IF Head(a) = Head(b) THEN IsSubsequence(Tail(a), Tail(b))
    ELSE IsSubsequence(a, Tail(b))

\* No returned allergen is empty, contains a hyphen, or starts or ends with a space.
AllergensAreClean ==
    \A k \in 1..Len(parseReturn.allergens) :
        LET x == parseReturn.allergens[k]
        IN /\ x # <<>>
           /\ x[1] # " "
           /\ x[Len(x)] # " "
           /\ \A i \in 1..Len(x) : x[i] # "-"

\* C13 as stated: every prefixed entry is returned as its cleaned rest, no
\* returned allergen is empty or contains a hyphen, the order is preserved, and
\* a missing allergens_tags yields the empty list.
C13_EveryPrefixedTagReturned ==
    AllergensParsed
    => /\ \A k \in 1..Len(ParsedTags) :
             HasLanguagePrefix(ParsedTags[k])
             => \E j \in 1..Len(parseReturn.allergens) :
                    parseReturn.allergens[j] = CleanedTag(ParsedTags[k])
       /\ AllergensAreClean
       /\ IsSubsequence(parseReturn.allergens,
                        [k \in 1..Len(ParsedTags) |-> CleanedTag(ParsedTags[k])])
       /\ "allergens_tags" \notin DOMAIN parseProduct => parseReturn.allergens = <<>>

\* C13 (amended): every entry - its rest when it starts with two lowercase
\* letters and a colon, the whole entry otherwise - is cleaned (hyphens replaced
\* by spaces, surrounding whitespace trimmed); entries whose cleaned text is
\* empty are dropped and the others are returned in the order of the tags; no
\* returned allergen is empty or contains a hyphen; a missing allergens_tags
\* yields the empty list.
C13_NonEmptyCleanedTagsReturned ==
    AllergensParsed
    => LET kept == {k \in 1..Len(ParsedTags) : CleanedTag(ParsedTags[k]) # <<>>}
           out == parseReturn.allergens
       IN /\ Len(out) = Cardinality(kept)
          /\ \A k \in kept :
                out[Cardinality({i \in kept : i <= k})] = CleanedTag(ParsedTags[k])
          /\ AllergensAreClean
          /\ "allergens_tags" \notin DOMAIN parseProduct => out = <<>>

\* A prefixed tag with an empty rest was dropped and a prefixed tag with a
\* hyphen was returned with a space.
C13_Witness ==
    /\ AllergensParsed
    /\ ParsedTags = << <<"e", "n", ":">>, <<"e", "n", ":", "a", "-", "a">> >>
    /\ parseReturn.allergens = << <<"a", " ", "a">> >>


(***************************************************************************)
(* Claims about the food result                                            *)
(***************************************************************************)
\* The flow returned a result built from a model output with isFoodItem = true.
FoodResultReturned ==
    /\ foodPc = "done"
    /\ foodOutcome.kind \in {"direct", "tool"}
    /\ foodOutcome.output.identification.isFoodItem = TRUE
    /\ ~foodResult.threw

\* isFoodItem is true, the name is non-empty (the default when the model's name
\* is missing or empty) and isOrganic is a boolean (false when undefined).
FoodCriticalFields ==
    LET out == foodOutcome.output.identification
        res == foodResult.value.identification
    IN /\ res.isFoodItem = TRUE
       /\ "name" \in DOMAIN res
       /\ res.name # <<>>
       /\ Read(out, "name") \in {{}, {<<>>}} => res.name = <<"Unnamed Food Item">>
       /\ Read(out, "name") \notin {{}, {<<>>}} => res.name = out.name
       /\ "isOrganic" \in DOMAIN res
       /\ res.isOrganic \in BOOLEAN
       /\ Read(out, "isOrganic") = {} => res.isOrganic = FALSE
       /\ Read(out, "isOrganic") # {} => res.isOrganic = out.isOrganic

\* The fields named are the same in the model output and in the result.
FoodFieldsPassedThrough(identificationFields) ==
    /\ \A k \in {"components", "chemicalResidues", "edibility"} :
          Read(foodResult.value, k) = Read(foodOutcome.output, k)
    /\ DOMAIN foodResult.value \subseteq
          {"identification", "components", "chemicalResidues", "edibility"}
    /\ \A k \in identificationFields :
          Read(foodResult.value.identification, k)
            = Read(foodOutcome.output.identification, k)

\* C14 as stated: the result has isFoodItem = true, a non-empty name and a
\* boolean isOrganic, and all other fields of the model output are passed
\* through unchanged.
C14_OtherFieldsUnchanged ==
    FoodResultReturned
    => /\ FoodCriticalFields
       /\ FoodFieldsPassedThrough(
              {"itemType", "confidence", "dominantColors", "organicReasoning"})

\* C14 (amended): the result has isFoodItem = true, a non-empty name and a
\* boolean isOrganic; all other fields of the model output except
\* identification.organicReasoning are passed through unchanged, and a
\* non-empty organicReasoning of the model is passed through too.
C14_FieldsButReasoningUnchanged ==
    FoodResultReturned
    => /\ FoodCriticalFields
       /\ FoodFieldsPassedThrough({"itemType", "confidence", "dominantColors"})
       /\ Read(foodOutcome.output.identification, "organicReasoning") \notin {{}, {<<>>}}
          => Read(foodResult.value.identification, "organicReasoning")
               = Read(foodOutcome.output.identification, "organicReasoning")

\* A model output without name and isOrganic but with every other field.
C14_Witness ==
    /\ FoodResultReturned
    /\ foodOutcome.kind = "direct"
    /\ DOMAIN foodOutcome.output = {"identification", "components", "chemicalResidues", "edibility"}
    /\ DOMAIN foodOutcome.output.identification
         = {"isFoodItem", "itemType", "confidence", "dominantColors", "organicReasoning"}
    /\ foodOutcome.output.identification.organicReasoning # <<>>
    /\ foodResult.value.identification.name = <<"Unnamed Food Item">>
    /\ foodResult.value.identification.isOrganic = FALSE


\* The result carries a non-empty identification.organicReasoning.
HasOrganicReasoning ==
    Read(foodResult.value.identification, "organicReasoning") \notin {{}, {<<>>}}

\* C15 as stated: whenever a returned food result has isOrganic = false,
\* organicReasoning is present and non-empty, for every model output.
C15_NotOrganicIsExplained ==
    (FoodResultReturned /\ foodResult.value.identification.isOrganic = FALSE)
    => HasOrganicReasoning

\* C15 (amended): whenever the model left isOrganic undefined, the result has
\* isOrganic = false and a non-empty organicReasoning (the model's, or the
\* default sentence); when the model set isOrganic itself, the result has a
\* non-empty organicReasoning exactly when the model gave one.
C15_DefaultedOrganicIsExplained ==
    FoodResultReturned
    => LET out == foodOutcome.output.identification
       IN IF Read(out, "isOrganic") = {}
          THEN /\ foodResult.value.identification.isOrganic = FALSE
               /\ HasOrganicReasoning
               /\ Read(out, "organicReasoning") \in {{}, {<<>>}}
                  => foodResult.value.identification.organicReasoning
                       = <<"Organic status could not be determined from visual inspection.">>
          ELSE HasOrganicReasoning <=> Read(out, "organicReasoning") \notin {{}, {<<>>}}

\* The model left isOrganic and organicReasoning out; the result explains.
C15_Witness ==
    /\ FoodResultReturned
    /\ Read(foodOutcome.output.identification, "isOrganic") = {}
    /\ Read(foodOutcome.output.identification, "organicReasoning") = {}
    /\ foodResult.value.identification.isOrganic = FALSE
    /\ HasOrganicReasoning


\* The simulateResults tool was called and has returned.
SimulatedReturned == foodPc = "done" /\ foodOutcome.kind = "tool"

\* String.prototype.includes at the granularity of the name's pieces.
Includes(text, piece) == \E k \in 1..Len(text) : text[k] = piece

\* Everything C16 says of the tool's return except the wording of the name.
SimulatedShape(input, out) ==
    /\ out.identification.isFoodItem = TRUE
    /\ out.identification.itemType = input.itemType
    /\ out.edibility = "Wash & Eat"
    /\ out.identification.confidence < ConfidenceThreshold
    /\ out.identification.isOrganic = (Read(input, "assumedOrganic") = {TRUE})
    /\ Len(out.chemicalResidues) = IF out.identification.isOrganic THEN 2 ELSE 3

\* C16 as stated: for every itemType and assumedOrganic, the simulated result
\* has the shape above and its name contains 'Organic' exactly when isOrganic
\* is true.
C16_NameSaysOrganicIffOrganic ==
    SimulatedReturned
    => /\ SimulatedShape(foodOutcome.input, foodOutcome.output)
       /\ Includes(foodOutcome.output.identification.name, "Organic")
             <=> foodOutcome.output.identification.isOrganic

\* C16 (amended): the simulated result has the shape above, and its name is
\* 'Simulated Organic <itemType>' when isOrganic is true and
\* 'Simulated Conventional <itemType>' otherwise, so that it contains 'Organic'
\* exactly when isOrganic is true unless the itemType itself contains 'Organic'.
C16_SimulatedShapeAndName ==
    SimulatedReturned
    => LET input == foodOutcome.input
           out == foodOutcome.output
       IN /\ SimulatedShape(input, out)
          /\ out.identification.name =
                <<"Simulated">>
                \o (IF out.identification.isOrganic THEN <<"Organic">> ELSE <<"Conventional">>)
                \o input.itemType
          /\ ~Includes(input.itemType, "Organic")
                => (Includes(out.identification.name, "Organic")
                      <=> out.identification.isOrganic)

\* assumedOrganic left undefined: simulated as conventional with three residues.
C16_Witness ==
    /\ SimulatedReturned
    /\ Read(foodOutcome.input, "assumedOrganic") = {}
    /\ foodOutcome.input.itemType = <<"fruit">>
    /\ foodOutcome.output.identification.isOrganic = FALSE
    /\ Len(foodOutcome.output.chemicalResidues) = 3
    /\ ~Includes(foodOutcome.output.identification.name, "Organic")


\* C17: in part_001 the original product info is preserved by the merge: for
\* every model output, the result's productName, brand, ingredients and
\* allergens equal the values returned by fetchProductInfoByBarcode.
C17_ProductInfoPreserved ==
    (bcRev = "part001" /\ bcPc = "done" /\ bcOutcome.kind = "output"
        /\ bcResult.threw = FALSE)
    => \A k \in {"productName", "brand", "ingredients", "allergens"} :
          Read(bcResult.value, k) = Read(bcProductInfo, k)


\* The messages the current tool handler writes into overallAssessment when it
\* returns isFound = false.
NotFoundMessages ==
    {OffNotOkReturn("current", st).overallAssessment : st \in {"404", "500"}}
    \cup {OffNotFoundReturn("current").overallAssessment,
          OffErrorReturn("current").overallAssessment}

\* C18: every result of the current analyzeBarcode with isFound = false has
\* empty ingredients, allergens and potentialConcerns, no imageUrl, and as
\* overallAssessment the tool's own non-empty message, unchanged.
C18_NotFoundResultIsEmpty ==
    (bcRev = "current" /\ bcPc = "done" /\ bcResult.threw = FALSE
        /\ bcResult.value.isFound = FALSE)
    => /\ bcResult.value.ingredients = <<>>
       /\ bcResult.value.allergens = <<>>
       /\ Read(bcResult.value, "potentialConcerns") = {<<>>}
       /\ "imageUrl" \notin DOMAIN bcResult.value
       /\ Read(bcResult.value, "overallAssessment") = Read(bcProductInfo, "overallAssessment")
       /\ bcResult.value.overallAssessment \in NotFoundMessages
       /\ bcResult.value.overallAssessment # <<>>

\* The API answered 404 and the result carries the message with that status.
C18_Witness ==
    /\ bcRev = "current"
    /\ bcPc = "done"
    /\ bcResult.threw = FALSE
    /\ bcResult.value.isFound = FALSE
    /\ bcResult.value.overallAssessment = OffNotOkReturn("current", "404").overallAssessment
    /\ bcResult.value.potentialConcerns = <<>>


\* C19: every result of the current analyzeBarcode carries potentialConcerns as
\* a list (possibly empty), on every path: not found, found without
\* ingredients, model output present, model output null, model call throwing.
C19_ConcernsAlwaysPresent ==
    (bcRev = "current" /\ bcPc = "done" /\ bcResult.threw = FALSE)
    => "potentialConcerns" \in DOMAIN bcResult.value


\* C19 (amended): a result of the current analyzeBarcode carries
\* potentialConcerns as a list when the product was not found (the empty list)
\* and when the model call resolved (the model's list, or the empty list for a
\* null output or a missing list); it carries no potentialConcerns when the
\* product was found without ingredients or when the model call threw.
C19_ConcernsWhereTheCodeSetsThem ==
    (bcRev = "current" /\ bcPc = "done" /\ bcResult.threw = FALSE)
    => LET concerns == Read(bcResult.value, "potentialConcerns")
       IN CASE bcResult.value.isFound = FALSE -> concerns = {<<>>}
            [] bcResult.value.isFound /\ bcOutcome.kind = "none" ->
                  /\ concerns = {}
                  /\ bcResult.value.ingredients = <<>>
            [] bcResult.value.isFound /\ bcOutcome.kind = "throw" -> concerns = {}
            [] bcResult.value.isFound /\ bcOutcome.kind = "null" -> concerns = {<<>>}
            [] bcResult.value.isFound /\ bcOutcome.kind = "output" ->
                  concerns = OrDef(Read(bcOutcome.output, "potentialConcerns"), {<<>>})

\* The model call threw: the result shows the product without potentialConcerns.
C19_Witness ==
    /\ bcRev = "current"
    /\ bcPc = "done"
    /\ bcOutcome.kind = "throw"
    /\ bcResult.threw = FALSE
    /\ bcResult.value.isFound = TRUE
    /\ bcResult.value.ingredients # <<>>
    /\ "potentialConcerns" \notin DOMAIN bcResult.value


\* The streams getUserMedia has handed out so far (stream i belongs to call i).
ObtainedStreams == {i \in DOMAIN tasks : tasks[i].phase \in {"play", "done"}}

\* C20: whenever the camera effect has run to completion with a preview present
\* or another tab active, no camera stream is held: streamRef is null, the video
\* has no srcObject, and every stream obtained so far has been stopped.
C20_NoStreamHeldOffCamera ==
    (pageMounted /\ (imagePreview \/ activeTab # "image-scan"))
    => /\ streamRef = 0
       /\ srcObject = 0
       /\ ObtainedStreams \subseteq stopped

====
